---- MODULE Spec2Model ----
(***************************************************************************)
(* A model of spores (src/main.rs): a single-threaded HTTP responder.      *)
(* Strings are sequences of one-character strings, so that splitting,      *)
(* trimming, joining and formatting are computed character by character.   *)
(***************************************************************************)
EXTENDS Integers, Sequences, FiniteSets, TLC

VARIABLES
    pc,             \* where the process is
    stream,         \* the unread bytes of the accepted connection
    req,            \* handle_connection's req / get_parsed_request's request
    request_route,  \* the ParsedRequest, once parsed
    status,         \* the status line chosen by the route lookup
    file,           \* the outcome of the handler's fs::read_to_string
    body,           \* the handler's return value
    wire,           \* what the write put on the connection
    trace           \* the steps handle_connection has run for this connection

vars == <<pc, stream, req, request_route, status, file, body, wire, trace>>

(***************************************************************************)
(* Bounds of the explored inputs.                                          *)
(***************************************************************************)
MaxTargetLen == 3
MaxTailLen == 5
MaxShortTailLen == 2
MaxStreamTail == 4

(***************************************************************************)
(* String literals of the program.                                         *)
(***************************************************************************)
GET_TOKEN == <<"G", "E", "T">>
POST_TOKEN == <<"P", "O", "S", "T">>
PUT_TOKEN == <<"P", "U", "T">>
DELETE_TOKEN == <<"D", "E", "L", "E", "T", "E">>
STATUS_OK ==
    <<"H", "T", "T", "P", "/", "1", ".", "1", " ", "2", "0", "0", " ", "O", "K", " ", "\r", "\n">>
STATUS_NOT_FOUND ==
    <<"H", "T", "T", "P", "/", "1", ".", "1", " ", "4", "0", "4", " ",
      "N", "o", "t", " ", "F", "o", "u", "n", "d", " ", "\r", "\n">>
CONTENT_LENGTH ==
    <<"C", "o", "n", "t", "e", "n", "t", "-", "L", "e", "n", "g", "t", "h", ":", " ">>
CRLF == <<"\r", "\n">>
INDEX_ROUTE == <<"/">>

Whitespace == {" ", "\t", "\n", "\r"}

None == "none"

(***************************************************************************)
(* str primitives used by the program.                                     *)
(***************************************************************************)
RECURSIVE split_ws(_, _)
split_ws(s, cur) ==
    IF s = <<>>
    THEN IF cur = <<>> THEN <<>> ELSE <<cur>>
    ELSE IF Head(s) \in Whitespace
         THEN (IF cur = <<>> THEN <<>> ELSE <<cur>>) \o split_ws(Tail(s), <<>>)
         ELSE split_ws(Tail(s), Append(cur, Head(s)))

split_whitespace(s) == split_ws(s, <<>>)

RECURSIVE split_at(_, _, _)
split_at(s, c, cur) ==
    IF s = <<>>
    THEN <<cur>>
    ELSE IF Head(s) = c
         THEN <<cur>> \o split_at(Tail(s), c, <<>>)
         ELSE split_at(Tail(s), c, Append(cur, Head(s)))

split(s, c) == split_at(s, c, <<>>)

RECURSIVE join(_, _)
join(segs, sep) ==
    IF segs = <<>>
    THEN <<>>
    ELSE IF Len(segs) = 1
         THEN Head(segs)
         ELSE Head(segs) \o sep \o join(Tail(segs), sep)

RECURSIVE trim_start(_)
trim_start(s) ==
    IF s # <<>> /\ Head(s) \in Whitespace THEN trim_start(Tail(s)) ELSE s

RECURSIVE trim_end(_)
trim_end(s) ==
    IF s # <<>> /\ s[Len(s)] \in Whitespace
    THEN trim_end(SubSeq(s, 1, Len(s) - 1))
    ELSE s

trim(s) == trim_end(trim_start(s))

contains(s, c) == \E i \in 1..Len(s) : s[i] = c

starts_with(s, c) == s # <<>> /\ s[1] = c

contains_str(s, pat) ==
    \E i \in 0..(Len(s) - Len(pat)) : SubSeq(s, i + 1, i + Len(pat)) = pat

(***************************************************************************)
(* get_parsed_request                                                      *)
(***************************************************************************)
request_line_of(request) == IF request = <<>> THEN <<>> ELSE request[1]

\* The three unwraps on the request line's tokens panic when one is missing.
parse_panics(request) == Len(split_whitespace(request_line_of(request))) < 3

route_of(target) == split(target, "?")[1]

query_of(target) ==
    LET route_parts == split(target, "?")
    IN  IF Len(route_parts) >= 2 THEN route_parts[2] ELSE <<>>

header_skipped(header) == ~contains(header, ":") \/ starts_with(header, "{")

header_key(header) == trim(split(header, ":")[1])

\* A value cut at the second ':' instead of rejoined.
header_value_cut(header) == trim(split(header, ":")[2])

header_value(header) == trim(join(Tail(split(header, ":")), <<":">>))

\* An insert that keeps the entry already present.
insert_keep_first(map, k, v) ==
    [x \in (DOMAIN map) \cup {k} |-> IF x \in DOMAIN map THEN map[x] ELSE v]

insert(map, k, v) == [x \in (DOMAIN map) \cup {k} |-> IF x = k THEN v ELSE map[x]]

RECURSIVE collect_headers(_, _, _)
collect_headers(request, i, headers) ==
    IF i > Len(request)
    THEN headers
    ELSE IF i > 1 /\ ~header_skipped(request[i])
         THEN collect_headers(request, i + 1,
                  insert(headers, header_key(request[i]), header_value(request[i])))
         ELSE collect_headers(request, i + 1, headers)

\* A match that also accepts the lower-case spelling of POST.
parse_method_any_case(method) ==
    IF method = GET_TOKEN THEN "GET"
    ELSE IF method \in {POST_TOKEN, <<"p", "o", "s", "t">>} THEN "POST"
    ELSE IF method = PUT_TOKEN THEN "PUT"
    ELSE IF method = DELETE_TOKEN THEN "DELETE"
    ELSE "GET"

parse_method(method) ==
    IF method = GET_TOKEN THEN "GET"
    ELSE IF method = POST_TOKEN THEN "POST"
    ELSE IF method = PUT_TOKEN THEN "PUT"
    ELSE IF method = DELETE_TOKEN THEN "DELETE"
    ELSE "GET"

\* A body taken from the last element whatever the method.
extract_body_any_method(method, request) ==
    IF request # <<>> /\ starts_with(request[Len(request)], "{")
    THEN request[Len(request)]
    ELSE <<>>

extract_body(method, request) ==
    IF method = "POST"
    THEN IF request # <<>> /\ starts_with(request[Len(request)], "{")
         THEN request[Len(request)]
         ELSE <<>>
    ELSE <<>>

get_parsed_request(request) ==
    LET parts  == split_whitespace(request_line_of(request))
        method == parse_method(parts[1])
    IN  [method  |-> method,
         route   |-> route_of(parts[2]),
         version |-> parts[3],
         query   |-> query_of(parts[2]),
         headers |-> collect_headers(request, 1, <<>>),
         body    |-> extract_body(method, request)]

(***************************************************************************)
(* Inputs.                                                                 *)
(***************************************************************************)
Strings(A, n) == UNION {[1..k -> A] : k \in 0..n}

MethodTokens ==
    {GET_TOKEN, POST_TOKEN, PUT_TOKEN, DELETE_TOKEN,
     <<"p", "o", "s", "t">>, <<"P", "O", "S", "T", "S">>}

\* Every non-empty target over '/' and '?', and an absolute-form one, which
\* puts a ':' into the request line.
Targets == (Strings({"/", "?"}, MaxTargetLen) \ {<<>>}) \cup {<<"h", ":", "/">>}

VERSION == <<"H">>

MalformedLines == {<<>>, <<" ">>, GET_TOKEN, GET_TOKEN \o <<" ", "/">>}

RequestLines ==
    {m \o <<" ">> \o t \o <<" ">> \o VERSION : m \in MethodTokens, t \in Targets}
        \cup MalformedLines

TailChars == {"k", ":", " ", "{", "\n"}

\* The elements after the request line: none, or the lines of a text of at
\* most n characters.
Tails(n) == {<<>>} \cup {split(s, "\n") : s \in Strings(TailChars, n)}

BaseLines == {m \o <<" ", "/", " ">> \o VERSION : m \in {GET_TOKEN, POST_TOKEN}}

\* Every request line with every short tail, and every tail under a GET and
\* a POST request line.
ParserInputs ==
    {<<>>}
        \cup {<<rl>> \o t : rl \in RequestLines, t \in Tails(MaxShortTailLen)}
        \cup {<<rl>> \o t : rl \in BaseLines, t \in Tails(MaxTailLen)}

(***************************************************************************)
(* A direct call of get_parsed_request, as the unit test makes.            *)
(***************************************************************************)
ParserInit ==
    /\ pc = "test"
    /\ req \in ParserInputs
    /\ stream = <<>>
    /\ request_route = None
    /\ status = None
    /\ file = None
    /\ body = None
    /\ wire = None
    /\ trace = <<>>

TestCall ==
    /\ pc = "test"
    /\ IF parse_panics(req)
       THEN pc' = "panicked" /\ request_route' = request_route
       ELSE pc' = "test_done" /\ request_route' = get_parsed_request(req)
    /\ UNCHANGED <<stream, req, status, file, body, wire, trace>>

(***************************************************************************)
(* Vocabulary of the properties, stated without the program's operators.   *)
(***************************************************************************)
\* The request line is METHOD TARGET VERSION with method token m and target t.
IsRequestLine(line, m, t) == line = m \o <<" ">> \o t \o <<" ">> \o VERSION

WellFormed(request) ==
    /\ request # <<>>
    /\ \E m \in MethodTokens, t \in Targets : IsRequestLine(request[1], m, t)

FirstIndex(s, c) == CHOOSE i \in 1..Len(s) : s[i] = c /\ \A j \in 1..(i - 1) : s[j] # c

Before(s, c) == SubSeq(s, 1, FirstIndex(s, c) - 1)

After(s, c) == SubSeq(s, FirstIndex(s, c) + 1, Len(s))

\* t is s without its leading and trailing whitespace.
IsTrimmed(t, s) ==
    \E i \in 1..(Len(s) + 1), j \in 0..Len(s) :
        /\ t = SubSeq(s, i, j)
        /\ \A k \in 1..(i - 1) : s[k] \in Whitespace
        /\ \A k \in (j + 1)..Len(s) : s[k] \in Whitespace
        /\ t # <<>> => (t[1] \notin Whitespace /\ t[Len(t)] \notin Whitespace)

IsHeaderLine(request, i) ==
    /\ i \in 2..Len(request)
    /\ \E k \in 1..Len(request[i]) : request[i][k] = ":"
    /\ request[i][1] # "{"

SameKey(request, i, j) ==
    LET a == Before(request[i], ":")
    IN  \E p \in 1..(Len(a) + 1), q \in 0..Len(a) :
            /\ IsTrimmed(SubSeq(a, p, q), a)
            /\ IsTrimmed(SubSeq(a, p, q), Before(request[j], ":"))

LastOfKey(request, i) ==
    \A j \in (i + 1)..Len(request) : IsHeaderLine(request, j) => ~SameKey(request, i, j)

Parsed == pc = "test_done"

(***************************************************************************)
(* C1: for a request line METHOD TARGET VERSION, route is the part of      *)
(* TARGET before its first '?' (all of it when there is none) and never    *)
(* contains '?', and query is everything after that first '?', later '?'   *)
(* included, or empty when TARGET has no '?'.                              *)
(***************************************************************************)
C1_RouteAndWholeQuery ==
    Parsed =>
        \A m \in MethodTokens, t \in Targets :
            IsRequestLine(req[1], m, t) =>
                /\ \A k \in 1..Len(request_route.route) : request_route.route[k] # "?"
                /\ IF \E k \in 1..Len(t) : t[k] = "?"
                   THEN t = request_route.route \o <<"?">> \o request_route.query
                   ELSE request_route.route = t /\ request_route.query = <<>>

(***************************************************************************)
(* C2: a line after the request line that contains ':' and does not start  *)
(* with '{' is recorded as a header: the key is the text before the first  *)
(* ':', the value is all the rest of the line after that ':' with later    *)
(* ':' kept, both trimmed of surrounding whitespace (the record stands     *)
(* unless a later line has the same key).                                  *)
(***************************************************************************)
C2_HeaderKeyValue ==
    Parsed =>
        \A i \in 2..Len(req) :
            (IsHeaderLine(req, i) /\ LastOfKey(req, i)) =>
                \E k \in DOMAIN request_route.headers :
                    /\ IsTrimmed(k, Before(req[i], ":"))
                    /\ IsTrimmed(request_route.headers[k], After(req[i], ":"))

C2_Witness ==
    /\ Parsed
    /\ \E i \in 2..Len(req) :
          /\ IsHeaderLine(req, i)
          /\ \E k \in DOMAIN request_route.headers :
                /\ k # <<>>
                /\ IsTrimmed(k, Before(req[i], ":"))
                /\ \E c \in 1..Len(request_route.headers[k]) :
                      request_route.headers[k][c] = ":"
                /\ Len(k) + 1 + Len(request_route.headers[k]) < Len(req[i])

(***************************************************************************)
(* C3: with a well-formed request line the parse succeeds and the headers  *)
(* map has exactly the keys of the lines after the request line that       *)
(* contain ':' and do not start with '{', each key holding the value of    *)
(* the last such line with it; all other lines add nothing.                *)
(***************************************************************************)
C3_HeadersMap ==
    /\ (pc = "panicked" => ~WellFormed(req))
    /\ Parsed =>
          /\ \A k \in DOMAIN request_route.headers :
                \E i \in 2..Len(req) :
                    /\ IsHeaderLine(req, i)
                    /\ LastOfKey(req, i)
                    /\ IsTrimmed(k, Before(req[i], ":"))
                    /\ IsTrimmed(request_route.headers[k], After(req[i], ":"))
          /\ \A i \in 2..Len(req) :
                IsHeaderLine(req, i) =>
                    \E k \in DOMAIN request_route.headers : IsTrimmed(k, Before(req[i], ":"))

C3_Witness ==
    /\ Parsed
    /\ Len(req) >= 3
    /\ \E i \in 2..Len(req), j \in 2..Len(req) :
          /\ i < j
          /\ IsHeaderLine(req, i)
          /\ IsHeaderLine(req, j)
          /\ SameKey(req, i, j)
          /\ After(req[i], ":") # <<>>
          /\ After(req[j], ":") = <<>>
          /\ Cardinality(DOMAIN request_route.headers) = 1
          /\ \A k \in DOMAIN request_route.headers : request_route.headers[k] = <<>>

(***************************************************************************)
(* C4: the method is POST, PUT or DELETE only for exactly that token;      *)
(* every other token (GET, lower case, unknown verbs) gives GET, and the   *)
(* parse does not fail.                                                    *)
(***************************************************************************)
C4_MethodMapping ==
    \A m \in MethodTokens, t \in Targets :
        (req # <<>> /\ IsRequestLine(req[1], m, t) /\ pc # "test") =>
            /\ Parsed
            /\ request_route.method = "POST" <=> m = <<"P", "O", "S", "T">>
            /\ request_route.method = "PUT" <=> m = <<"P", "U", "T">>
            /\ request_route.method = "DELETE" <=> m = <<"D", "E", "L", "E", "T", "E">>
            /\ request_route.method \in {"GET", "POST", "PUT", "DELETE"}

C4_Witness ==
    /\ Parsed
    /\ \E t \in Targets : IsRequestLine(req[1], <<"p", "o", "s", "t">>, t)
    /\ request_route.method = "GET"

(***************************************************************************)
(* C5: the body is the last element of the input, verbatim, exactly when   *)
(* the method is POST and that element starts with '{'; otherwise it is    *)
(* empty.                                                                  *)
(***************************************************************************)
C5_Body ==
    Parsed =>
        LET last == req[Len(req)]
        IN  IF request_route.method = "POST" /\ last # <<>> /\ last[1] = "{"
            THEN request_route.body = last
            ELSE request_route.body = <<>>

C5_Witness ==
    /\ Parsed
    /\ request_route.method = "POST"
    /\ Len(req) >= 3
    /\ request_route.body = req[Len(req)]
    /\ Len(request_route.body) >= 2

(***************************************************************************)
(* C7: an empty input sequence does not crash the parser.                  *)
(***************************************************************************)
C7_EmptyInputParses == (req = <<>> /\ pc # "test") => Parsed

ParserNext == TestCall

ParserSpec == ParserInit /\ [][ParserNext]_vars

(***************************************************************************)
(* The connection: BufRead::lines, take_while and read_until.              *)
(***************************************************************************)
index_of(s, c) ==
    IF contains(s, c)
    THEN CHOOSE i \in 1..Len(s) : s[i] = c /\ \A j \in 1..(i - 1) : s[j] # c
    ELSE 0

strip_cr(line) ==
    IF line # <<>> /\ line[Len(line)] = "\r"
    THEN SubSeq(line, 1, Len(line) - 1)
    ELSE line

\* The lines up to the first empty one (or the end of the stream), and the
\* bytes left unread behind them.
RECURSIVE read_head(_, _)
read_head(bytes, acc) ==
    IF bytes = <<>>
    THEN [lines |-> acc, rest |-> <<>>]
    ELSE LET i    == index_of(bytes, "\n")
             line == IF i = 0 THEN bytes ELSE strip_cr(SubSeq(bytes, 1, i - 1))
             rest == IF i = 0 THEN <<>> ELSE SubSeq(bytes, i + 1, Len(bytes))
         IN  IF line = <<>>
             THEN [lines |-> acc, rest |-> rest]
             ELSE read_head(rest, Append(acc, line))

read_until(bytes, c) ==
    LET i == index_of(bytes, c)
    IN  IF i = 0
        THEN [data |-> bytes, rest |-> <<>>]
        ELSE [data |-> SubSeq(bytes, 1, i), rest |-> SubSeq(bytes, i + 1, Len(bytes))]

wants_body(request) == contains_str(request[1], POST_TOKEN)

(***************************************************************************)
(* Dispatch and response.                                                  *)
(***************************************************************************)
handlers == [r \in {INDEX_ROUTE} |-> "index"]

\* A lookup that matches the registered route as a prefix.
lookup_prefix(route) ==
    IF \E r \in DOMAIN handlers : Len(route) >= Len(r) /\ SubSeq(route, 1, Len(r)) = r
    THEN "index"
    ELSE None

lookup(route) == IF route \in DOMAIN handlers THEN handlers[route] ELSE None

status_for(handler) == IF handler = None THEN STATUS_NOT_FOUND ELSE STATUS_OK

path_for(handler) == IF handler = None THEN "src/404.html" ELSE "src/index.html"

\* A handler that returns the error's text as the body.
handler_body_error_text(result) ==
    IF result.ok THEN result.content ELSE <<"N", "o", " ", "f", "i", "l", "e">>

\* index and not_found: the file's content, or the empty string on an error.
handler_body(result) == IF result.ok THEN result.content ELSE <<>>

Digits == <<"0", "1", "2", "3", "4", "5", "6", "7", "8", "9">>

RECURSIVE to_decimal(_)
to_decimal(n) ==
    IF n < 10 THEN <<Digits[n + 1]>> ELSE to_decimal(n \div 10) \o <<Digits[(n % 10) + 1]>>

format_response(st, b) == st \o CONTENT_LENGTH \o to_decimal(Len(b)) \o CRLF \o CRLF \o b

(***************************************************************************)
(* The server's inputs.                                                    *)
(***************************************************************************)
ServerMethodTokens == {GET_TOKEN, POST_TOKEN, DELETE_TOKEN, <<"P", "O", "S", "T", "S">>}

ServerRequestLines ==
    {m \o <<" ">> \o t \o <<" ">> \o VERSION : m \in ServerMethodTokens, t \in Targets}
        \cup MalformedLines

StreamChars == {"\n", "{", "}"}

Streams == {rl \o t : rl \in ServerRequestLines, t \in Strings(StreamChars, MaxStreamTail)}

FileContents ==
    {<<>>, <<"<", "p", ">", "s", "p", "o", "r", "e", "s", "<", "/", "p", ">">>}

ReadResults ==
    {[ok |-> FALSE, content |-> <<>>]} \cup {[ok |-> TRUE, content |-> c] : c \in FileContents}

(***************************************************************************)
(* main and handle_connection.                                             *)
(***************************************************************************)
Init ==
    /\ pc = "bind"
    /\ stream = <<>>
    /\ req = <<>>
    /\ request_route = None
    /\ status = None
    /\ file = None
    /\ body = None
    /\ wire = None
    /\ trace = <<>>

Bind ==
    /\ pc = "bind"
    /\ \E bound \in BOOLEAN : pc' = IF bound THEN "accept" ELSE "exited"
    /\ UNCHANGED <<stream, req, request_route, status, file, body, wire, trace>>

\* listener.incoming() yields the next connection, or an error that
\* stream.unwrap() turns into a panic.
Accept ==
    /\ pc = "accept"
    /\ \/ pc' = "panicked" /\ stream' = stream
       \/ pc' = "read_head" /\ stream' \in Streams
    /\ UNCHANGED <<req, request_route, status, file, body, wire, trace>>

\* reader.lines().map(unwrap).take_while(non-empty).collect()
ReadHead ==
    /\ pc = "read_head"
    /\ \/ /\ pc' = "panicked"
          /\ UNCHANGED <<stream, req, trace>>
       \/ /\ req' = read_head(stream, <<>>).lines
          /\ stream' = read_head(stream, <<>>).rest
          /\ trace' = Append(trace, "read_head")
          /\ pc' = "check_post"
    /\ UNCHANGED <<request_route, status, file, body, wire>>

\* match req[0].contains("POST")
ReadBody ==
    /\ pc = "check_post"
    /\ IF req = <<>>
       THEN pc' = "panicked" /\ UNCHANGED <<stream, req, trace>>
       ELSE IF wants_body(req)
            THEN \/ /\ pc' = "panicked"
                    /\ UNCHANGED <<stream, req, trace>>
                 \/ /\ req' = Append(req, read_until(stream, "}").data)
                    /\ stream' = read_until(stream, "}").rest
                    /\ trace' = Append(trace, "read_body")
                    /\ pc' = "parse"
            ELSE pc' = "parse" /\ UNCHANGED <<stream, req, trace>>
    /\ UNCHANGED <<request_route, status, file, body, wire>>

Parse ==
    /\ pc = "parse"
    /\ IF parse_panics(req)
       THEN pc' = "panicked" /\ UNCHANGED <<request_route, trace>>
       ELSE /\ pc' = "dispatch"
            /\ request_route' = get_parsed_request(req)
            /\ trace' = Append(trace, "parse")
    /\ UNCHANGED <<stream, req, status, file, body, wire>>

Dispatch ==
    /\ pc = "dispatch"
    /\ LET handler == lookup(request_route.route)
       IN  /\ status' = status_for(handler)
           /\ \E result \in ReadResults :
                 /\ file' = [path |-> path_for(handler), ok |-> result.ok,
                             content |-> result.content]
                 /\ body' = handler_body(result)
    /\ trace' = Append(trace, "dispatch")
    /\ pc' = "write"
    /\ UNCHANGED <<stream, req, request_route, wire>>

\* stream.write_all(response): an error is printed and nothing else happens.
Write ==
    /\ pc = "write"
    /\ \E written \in BOOLEAN :
          wire' = IF written THEN format_response(status, body) ELSE "write_failed"
    /\ trace' = Append(trace, "write")
    /\ pc' = "returned"
    /\ UNCHANGED <<stream, req, request_route, status, file, body>>

\* handle_connection has returned and dropped the connection and its locals;
\* main prints and goes round the loop.
Established ==
    /\ pc = "returned"
    /\ pc' = "accept"
    /\ stream' = <<>>
    /\ req' = <<>>
    /\ request_route' = None
    /\ status' = None
    /\ file' = None
    /\ body' = None
    /\ wire' = None
    /\ trace' = <<>>

(***************************************************************************)
(* Vocabulary of the response properties.                                  *)
(***************************************************************************)
OkLine == <<"H", "T", "T", "P", "/", "1", ".", "1", " ", "2", "0", "0", " ", "O", "K", " ">>

NotFoundLine ==
    <<"H", "T", "T", "P", "/", "1", ".", "1", " ", "4", "0", "4", " ",
      "N", "o", "t", " ", "F", "o", "u", "n", "d", " ">>

LengthName ==
    <<"C", "o", "n", "t", "e", "n", "t", "-", "L", "e", "n", "g", "t", "h", ":", " ">>

DigitValue ==
    ("0" :> 0) @@ ("1" :> 1) @@ ("2" :> 2) @@ ("3" :> 3) @@ ("4" :> 4) @@
    ("5" :> 5) @@ ("6" :> 6) @@ ("7" :> 7) @@ ("8" :> 8) @@ ("9" :> 9)

RECURSIVE DecimalValue(_)
DecimalValue(d) ==
    IF d = <<>>
    THEN 0
    ELSE 10 * DecimalValue(SubSeq(d, 1, Len(d) - 1)) + DigitValue[d[Len(d)]]

\* d is the decimal numeral of n.
IsDecimalOf(d, n) ==
    /\ d # <<>>
    /\ \A i \in 1..Len(d) : d[i] \in DOMAIN DigitValue
    /\ Len(d) > 1 => d[1] # "0"
    /\ DecimalValue(d) = n

StatusLineFor(route) == IF route = <<"/">> THEN OkLine ELSE NotFoundLine

ResourceFor(route) == IF route = <<"/">> THEN "src/index.html" ELSE "src/404.html"

Written == pc = "returned" /\ wire # "write_failed"

(***************************************************************************)
(* C6: for a parsed request the bytes written are the status line, CRLF,   *)
(* "Content-Length: n", CRLF, CRLF and the body, nothing else; the status  *)
(* line is the 200 one and the body the index resource's content iff the   *)
(* route is exactly "/", otherwise the 404 line and the not-found          *)
(* resource's content; n is the length of the body.                        *)
(***************************************************************************)
C6_ResponseBytes ==
    Written =>
        LET head == StatusLineFor(request_route.route) \o <<"\r", "\n">> \o LengthName
            d    == SubSeq(wire, Len(head) + 1, Len(wire) - Len(body) - 4)
        IN  /\ file.path = ResourceFor(request_route.route)
            /\ file.ok => body = file.content
            /\ IsDecimalOf(d, Len(body))
            /\ wire = head \o d \o <<"\r", "\n", "\r", "\n">> \o body

C6_Witness ==
    /\ Written
    /\ request_route.route = <<"/">>
    /\ Len(split_whitespace(req[1])[2]) > 1
    /\ file.ok
    /\ Len(body) >= 10
    /\ SubSeq(wire, 1, Len(OkLine)) = OkLine

(***************************************************************************)
(* C8: once the bind has succeeded, nothing that happens to a connection   *)
(* terminates the process.                                                 *)
(***************************************************************************)
C8_NoConnectionTerminatesProcess == pc # "panicked"

(***************************************************************************)
(* C9: when the selected handler fails to read its file, the request goes  *)
(* on: the body is empty, the status line is the one the route lookup      *)
(* chose, and the response is that line with "Content-Length: 0" and no    *)
(* body.                                                                   *)
(***************************************************************************)
C9_ReadFailureGivesEmptyBody ==
    (pc \in {"write", "returned"} /\ ~file.ok) =>
        /\ body = <<>>
        /\ status = StatusLineFor(request_route.route) \o <<"\r", "\n">>
        /\ Written =>
              wire = StatusLineFor(request_route.route) \o <<"\r", "\n">> \o LengthName
                         \o <<"0", "\r", "\n", "\r", "\n">>

C9_Witness ==
    /\ Written
    /\ ~file.ok
    /\ file.path = "src/index.html"
    /\ wire = OkLine \o <<"\r", "\n">> \o LengthName \o <<"0", "\r", "\n", "\r", "\n">>

(***************************************************************************)
(* C10: the body read happens, and its result is the last element handed   *)
(* to the parser, exactly for requests whose method is POST; the steps run *)
(* in the order read head, optional body read, parse, dispatch, write.     *)
(***************************************************************************)
C10_BodyReadIffPost ==
    pc \in {"dispatch", "write", "returned"} =>
        /\ (\E i \in 1..Len(trace) : trace[i] = "read_body") <=> request_route.method = "POST"
        /\ LET steps == IF request_route.method = "POST"
                         THEN <<"read_head", "read_body", "parse", "dispatch", "write">>
                         ELSE <<"read_head", "parse", "dispatch", "write">>
           IN  \E k \in 0..Len(steps) : trace = SubSeq(steps, 1, k)

Next == Bind \/ Accept \/ ReadHead \/ ReadBody \/ Parse \/ Dispatch \/ Write \/ Established

Spec == Init /\ [][Next]_vars

====
